---- MODULE Spec2Model ----
(***************************************************************************)
(* Tender Management UI (app_patch_backbutton.py): the record store, the   *)
(* stage filter, the single-selection model and the navigation state       *)
(* machine of one browser session.  The script is re-executed from top to  *)
(* bottom ("a pass") after every user interaction; st.session_state, the   *)
(* query parameters of the URL and the JSON file survive between passes.   *)
(***************************************************************************)
EXTENDS Integers, Sequences, FiniteSets, TLC

\* ------------------------------------------------------------------ bounds
MaxHist     == 3   \* entries of _nav_history before page changes are cut off
MaxRecs     == 2   \* records in the document before Create is cut off
MaxProducts == 1   \* products in the document before Add Product is cut off
MaxAttach   == 1   \* attachments in the document before uploads are cut off
MaxChain    == 3   \* passes counted in one chain of due passes
MaxScan     == 3   \* records of the documents given to the store functions

\* ------------------------------------------------------- strings and ids
\* A record id is a Python str, modelled as a sequence of one-character
\* strings.  NoId stands for None / a missing key.
NoId   == << >>
NoPage == ""
OPP1   == <<"O","P","P","-","0","0","0","1">>
OPP2   == <<"O","P","P","-","0","0","0","2">>
BADID  == <<"O","P","P","-","0","0","x">>
GHOST  == <<"O","P","P","-","0","0","0","9">>
OPP3   == <<"O","P","P","-","0","0","0","3">>
OPP8   == <<"O","P","P","-","0","0","0","8">>
BARE7  == <<"7">>
X12    == <<"X","-","1","2">>
NOSUF  == <<"O","P","P","-">>
NoneStr == <<"N","o","n","e">>

Digits == {"0","1","2","3","4","5","6","7","8","9"}

DigitVal(c) ==
  CASE c = "0" -> 0 [] c = "1" -> 1 [] c = "2" -> 2 [] c = "3" -> 3
    [] c = "4" -> 4 [] c = "5" -> 5 [] c = "6" -> 6 [] c = "7" -> 7
    [] c = "8" -> 8 [] c = "9" -> 9

DigitChar(n) ==
  CASE n = 0 -> "0" [] n = 1 -> "1" [] n = 2 -> "2" [] n = 3 -> "3"
    [] n = 4 -> "4" [] n = 5 -> "5" [] n = 6 -> "6" [] n = 7 -> "7"
    [] n = 8 -> "8" [] n = 9 -> "9"

\* str.split('-')[-1]: what follows the last dash (the whole string when
\* there is none).
SplitLast(s) ==
  LET dashes == {i \in 1..Len(s) : s[i] = "-"}
      last   == IF dashes = {} THEN 0
                ELSE CHOOSE i \in dashes : \A j \in dashes : j <= i
  IN  SubSeq(s, last + 1, Len(s))

RECURSIVE DecVal(_)
DecVal(t) == IF t = << >> THEN 0
             ELSE 10 * DecVal(SubSeq(t, 1, Len(t) - 1)) + DigitVal(t[Len(t)])

\* int(t) for the alphabet used here: -1 stands for ValueError.
IntOf(t) ==
  IF t = << >> \/ \E i \in 1..Len(t) : t[i] \notin Digits THEN -1
  ELSE DecVal(t)

RECURSIVE DecStr(_)
DecStr(n) == IF n < 10 THEN <<DigitChar(n)>>
             ELSE DecStr(n \div 10) \o <<DigitChar(n % 10)>>

RECURSIVE PadLeft(_, _)
PadLeft(t, w) == IF Len(t) >= w THEN t ELSE PadLeft(<<"0">> \o t, w)

\* f"OPP-{nxt:04d}"
FormatId(n) == <<"O","P","P","-">> \o PadLeft(DecStr(n), 4)

\* str(v) as st.query_params stores it: None becomes the text "None".
QpStr(v) == IF v = NoId THEN NoneStr ELSE v

\* str.strip() and str.lower() on the stage texts of the model.
StageTexts == {"All", "all", " All ", "Proposal", "PROPOSAL", "proposal",
               " proposal ", "Submitted", "submitted", ""}

StripOf(s) ==
  CASE s = " proposal " -> "proposal"
    [] s = " All " -> "All"
    [] OTHER -> s

LowerOf(s) ==
  CASE s = "All" -> "all"
    [] s = " All " -> " all "
    [] s = "Proposal" -> "proposal"
    [] s = "PROPOSAL" -> "proposal"
    [] s = "Submitted" -> "submitted"
    [] OTHER -> s

\* ------------------------------------------------------------ the state
VARIABLES
  file,            \* content of data/tenders.json
  qp,              \* the query parameters of the URL: [page, id]
  present,         \* the keys that are in st.session_state
  data,            \* st.session_state.data (the list under 'opportunities')
  current_id,      \* st.session_state.current_id
  nav,             \* st.session_state['nav'], the state of the sidebar radio
  qp_consumed,     \* st.session_state._qp_consumed
  nav_target,      \* st.session_state['nav_target'], the pending intent
  nav_history,     \* st.session_state['_nav_history']
  selected_map,    \* st.session_state._selected_map
  selected_stage,  \* state of the 'Stage' selectbox
  uploaded,        \* number of files held by the file uploader
  pc,              \* "run": a pass is due; "idle": the last pass completed
  ev,              \* why the due pass runs (a callback or st.rerun())
  obs,             \* what the last step read and decided
  peer             \* a second browser session on the same file, if any

vars == <<file, qp, present, data, current_id, nav, qp_consumed, nav_target,
          nav_history, selected_map, selected_stage, uploaded, pc, ev, obs,
          peer>>

\* --------------------------------------------------------- record store
Opp(id, stage, by) ==
  [id |-> id, stage |-> stage, last_modified_by |-> by,
   products |-> << >>, attachments |-> << >>]

EmptyDoc == << >>

\* A document is the dict that load_data returns: the value under
\* 'opportunities' (opps) and whether that value is a list.
Document(d) == [islist |-> TRUE, opps |-> d]

\* The storage location: no file, unparseable text, a JSON value that is
\* not an object, an object without the key, or an object with the key
\* (whose value is a list or, e.g., a string).
AbsentFile    == [kind |-> "absent",    islist |-> FALSE, opps |-> << >>]
CorruptFile   == [kind |-> "corrupt",   islist |-> FALSE, opps |-> << >>]
NonObjectFile == [kind |-> "nonobject", islist |-> FALSE, opps |-> << >>]
NoKeyFile     == [kind |-> "nokey",     islist |-> FALSE, opps |-> << >>]
NotListFile   == [kind |-> "doc",       islist |-> FALSE, opps |-> << >>]
DocFile(d)    == [kind |-> "doc",       islist |-> TRUE,  opps |-> d]

load_data(f) ==
  IF f.kind = "absent" THEN Document(EmptyDoc)
  ELSE IF f.kind = "corrupt" THEN Document(EmptyDoc)
  ELSE IF f.kind = "nonobject" \/ f.kind = "nokey" THEN Document(EmptyDoc)
  ELSE [islist |-> f.islist, opps |-> f.opps]

\* a write that loses the last record
save_data_truncated(d) ==
  DocFile(IF d = << >> THEN d ELSE SubSeq(d, 1, Len(d) - 1))

\* a write that keeps the records already in the file and adds the others
save_data_merge(d) ==
  LET Foreign(o) == \A i \in 1..Len(file.opps) : file.opps[i].id # o.id
  IN  DocFile(file.opps \o SelectSeq(d, Foreign))

save_data(d) == DocFile(d)

IdsOf(d) == [i \in 1..Len(d) |-> d[i].id]

HasId(d, id) == \E i \in 1..Len(d) : d[i].id = id

\* index of the first record with that id, 0 when there is none
get_by_id(d, id) ==
  IF HasId(d, id) THEN CHOOSE i \in 1..Len(d) :
                         d[i].id = id /\ \A j \in 1..(i - 1) : d[j].id # id
  ELSE 0

\* next_id whose scan ends at the first id that does not parse
next_id_stop_at_malformed(d) ==
  LET bad  == {i \in 1..Len(d) : IntOf(SplitLast(d[i].id)) = -1}
      upto == IF bad = {} THEN Len(d)
              ELSE (CHOOSE i \in bad : \A j \in bad : i <= j) - 1
      ids  == {IntOf(SplitLast(d[i].id)) : i \in 1..upto}
      nxt  == IF ids # {} THEN (CHOOSE m \in ids : \A k \in ids : k <= m) + 1
              ELSE 1
  IN  FormatId(nxt)

\* next_id without the increment
next_id_no_increment(d) ==
  LET ids == {IntOf(SplitLast(d[i].id)) : i \in 1..Len(d)} \ {-1}
      nxt == IF ids # {} THEN CHOOSE m \in ids : \A k \in ids : k <= m
             ELSE 1
  IN  FormatId(nxt)

next_id(d) ==
  LET ids == {IntOf(SplitLast(d[i].id)) : i \in 1..Len(d)} \ {-1}
      nxt == IF ids # {} THEN (CHOOSE m \in ids : \A k \in ids : k <= m) + 1
             ELSE 1
  IN  FormatId(nxt)

\* the filter without strip() on the record's stage
filter_no_strip(d, stage) ==
  LET st == StripOf(stage)
      Keep(o) == LowerOf(o.stage) = LowerOf(st)
  IN  IF LowerOf(st) = "all" \/ st = "" THEN d ELSE SelectSeq(d, Keep)

filter_opportunities_by_stage(d, stage) ==
  LET st == StripOf(stage)
      Keep(o) == LowerOf(StripOf(o.stage)) = LowerOf(st)
  IN  IF LowerOf(st) = "all" \/ st = "" THEN d ELSE SelectSeq(d, Keep)

\* ---------------------------------------------------------- session state
valid_pages == {"Opportunities", "New Opportunity", "Opportunity Detail",
                "Submit Tender"}

NoMap == << >>

Ev(kind) == [kind |-> kind, hist0 |-> << >>]

NoLink == [page |-> NoPage, id |-> NoId]

ObsBase ==
  [kind |-> "init", page |-> NoPage, hist0 |-> << >>,
   fresh |-> FALSE, target0 |-> NoPage, hydrated |-> FALSE,
   qp0 |-> NoLink, idok |-> FALSE, elsewhere |-> FALSE,
   nav0 |-> NoPage, cur0 |-> NoId, cur1 |-> NoId,
   listed |-> << >>, prev_map |-> NoMap, edited_map |-> NoMap,
   branch |-> "", rerun |-> FALSE, disabled |-> FALSE, stage0 |-> "",
   keys0 |-> {}, chain |-> 0]

\* Documents a session can find in the file when it starts.
InitDocs ==
  { << Opp(BADID, " proposal ", "Ann") >>,
    << Opp(OPP1, "Proposal", "Ann"), Opp(OPP2, "Submitted", "Tender Desk") >> }

InitFiles == {AbsentFile} \cup {DocFile(d) : d \in InitDocs}

\* Links a browser can present: page and id valid or unknown, or no
\* parameters at all.
LinkPages == {"Opportunity Detail", "Bogus"}
LinkIds   == {OPP2, GHOST}
Links     == [page : LinkPages, id : LinkIds]

\* Links presented to a running session.
EditLinks == {[page |-> "Opportunity Detail", id |-> OPP2],
              [page |-> "Bogus", id |-> GHOST]}

NoPeer == [started |-> FALSE]

\* a session before its first pass: an empty st.session_state
FreshSession ==
  [started |-> TRUE, present |-> {}, data |-> EmptyDoc, current_id |-> NoId,
   nav |-> NoPage, qp_consumed |-> FALSE, nav_target |-> NoPage,
   nav_history |-> << >>, selected_map |-> NoMap, selected_stage |-> "All",
   uploaded |-> 0, qp |-> NoLink, pc |-> "run", ev |-> Ev("open")]

Init ==
  /\ file \in InitFiles
  /\ qp \in Links \cup {NoLink}
  /\ peer = NoPeer
  /\ present = {}
  /\ data = EmptyDoc
  /\ current_id = NoId
  /\ nav = NoPage
  /\ qp_consumed = FALSE
  /\ nav_target = NoPage
  /\ nav_history = << >>
  /\ selected_map = NoMap
  /\ selected_stage = "All"
  /\ uploaded = 0
  /\ pc = "run"
  /\ ev = Ev("open")
  /\ obs = ObsBase

\* ------------------------------------------- navigation history and Back
\* push_nav without the duplicate test
push_nav_always(hist, page_name) == Append(hist, page_name)

\* push_nav comparing with every entry instead of the last
push_nav_if_new(hist, page_name) ==
  IF \A i \in 1..Len(hist) : hist[i] # page_name
  THEN Append(hist, page_name) ELSE hist

push_nav(hist, page_name) ==
  IF hist = << >> \/ hist[Len(hist)] # page_name
  THEN Append(hist, page_name) ELSE hist

\* back_button: the disabled flag of the rendered control
back_disabled(hist) == hist = << >> \/ Len(hist) <= 1

\* _go_back that reads the target without removing the current page
go_back_keep_top(hist, target, link, cur) ==
  IF hist # << >> /\ Len(hist) > 1
  THEN [hist |-> hist, target |-> hist[Len(hist) - 1], set_target |-> TRUE,
        qp |-> [page |-> hist[Len(hist) - 1], id |-> QpStr(cur)]]
  ELSE [hist |-> hist, target |-> target, set_target |-> FALSE, qp |-> link]

\* _go_back that sets the intent whatever the length of the history
go_back_unguarded(hist, target, link, cur) ==
  IF hist # << >> /\ Len(hist) > 1
  THEN LET h == SubSeq(hist, 1, Len(hist) - 1)
       IN  [hist |-> h, target |-> h[Len(h)], set_target |-> TRUE,
            qp |-> [page |-> h[Len(h)], id |-> QpStr(cur)]]
  ELSE [hist |-> hist, target |-> hist[Len(hist)], set_target |-> TRUE,
        qp |-> link]

\* _go_back leaving the page it came from in the link
go_back_stale_link(hist, target, link, cur) ==
  IF hist # << >> /\ Len(hist) > 1
  THEN LET h == SubSeq(hist, 1, Len(hist) - 1)
       IN  [hist |-> h, target |-> h[Len(h)], set_target |-> TRUE,
            qp |-> [page |-> hist[Len(hist)], id |-> QpStr(cur)]]
  ELSE [hist |-> hist, target |-> target, set_target |-> FALSE, qp |-> link]

\* back_button._go_back: the fields it leaves behind
go_back(hist, target, link, cur) ==
  IF hist # << >> /\ Len(hist) > 1
  THEN LET h == SubSeq(hist, 1, Len(hist) - 1)
       IN  [hist |-> h, target |-> h[Len(h)], set_target |-> TRUE,
            qp |-> [page |-> h[Len(h)], id |-> QpStr(cur)]]
  ELSE [hist |-> hist, target |-> target, set_target |-> FALSE, qp |-> link]

\* ------------------------------------------ the head of a pass (115-164)
\* What a pass is delivered: the widget state and the query string as the
\* browser sends them, and the button that was pressed.
Same ==
  [kind |-> "input", nav |-> nav, qp |-> qp, selected_stage |-> selected_stage,
   uploaded |-> uploaded, toggled |-> {}, stage |-> "", hist0 |-> << >>]

has_intent == "nav_target" \in present

\* seed state
H_data == IF "data" \in present THEN data ELSE load_data(file).opps

H_seed_cur ==
  IF "current_id" \notin present /\ H_data # << >>
  THEN H_data[1].id ELSE current_id

H_seed_nav(in) == IF "nav" \notin present THEN "Opportunities" ELSE in.nav

H_seed_consumed == IF "_qp_consumed" \notin present THEN FALSE ELSE qp_consumed

\* process navigation intent before widgets
H_intent_nav(in) == IF has_intent THEN nav_target ELSE H_seed_nav(in)

H_intent_consumed == IF has_intent THEN FALSE ELSE H_seed_consumed

\* deep-link hydration
\* hydration of the id nested under the page test
hydrate_id_if_page(consumed, link, d, cur) ==
  IF ~consumed /\ link.page \in valid_pages
     /\ link.id # NoId /\ HasId(d, link.id) THEN link.id ELSE cur

\* hydration of the id without the existence test
hydrate_id_unchecked(consumed, link, d, cur) ==
  IF ~consumed /\ link.id # NoId THEN link.id ELSE cur

hydrate_id(consumed, link, d, cur) ==
  IF ~consumed /\ link.id # NoId /\ HasId(d, link.id) THEN link.id ELSE cur

\* hydration of the page without the consumed flag
hydrate_page_always(consumed, link, page) ==
  IF link.page \in valid_pages THEN link.page ELSE page

hydrate_page(consumed, link, page) ==
  IF ~consumed /\ link.page \in valid_pages THEN link.page ELSE page

H_cur(in) == hydrate_id(H_intent_consumed, in.qp, H_data, H_seed_cur)

H_nav(in) == hydrate_page(H_intent_consumed, in.qp, H_intent_nav(in))

H_consumed == IF ~H_intent_consumed THEN TRUE ELSE H_intent_consumed

\* keep query params in sync with the current selection
sync_qp(page, cur) == [page |-> page, id |-> QpStr(cur)]

H_qp(in) == sync_qp(H_nav(in), H_cur(in))

H_hist(in) == push_nav(nav_history, H_nav(in))

H_present(in) ==
  ((present \cup {"data", "nav", "_qp_consumed", "_nav_history"})
     \cup (IF H_cur(in) # NoId THEN {"current_id"} ELSE {})) \ {"nav_target"}

PassObs(in) ==
  [ObsBase EXCEPT !.kind = "pass", !.page = H_nav(in),
                  !.chain = IF pc # "run" THEN 0
                            ELSE IF obs.chain < MaxChain THEN obs.chain + 1
                            ELSE MaxChain,
                  !.hist0 = in.hist0, !.fresh = ("nav" \notin present),
                  !.target0 = IF has_intent THEN nav_target ELSE NoPage,
                  !.hydrated = ~H_intent_consumed,
                  !.qp0 = IF H_intent_consumed THEN NoLink ELSE in.qp,
                  !.idok = HasId(H_data, in.qp.id),
                  !.elsewhere = /\ in.qp.page \in valid_pages
                                /\ in.qp.page # H_intent_nav(in)
                                /\ HasId(H_data, in.qp.id)
                                /\ in.qp.id # H_seed_cur,
                  !.nav0 = H_intent_nav(in), !.cur0 = H_seed_cur,
                  !.cur1 = H_cur(in)]

\* -------------------------------------- selection model (lines 191-247)
SeqToSet(q) == {q[i] : i \in 1..Len(q)}

\* the selection map as prepared for the listed ids (lines 193-203)
refresh_map(has_map, m, ids, cur) ==
  IF ~has_map THEN [rid \in SeqToSet(ids) |-> rid = cur]
  ELSE [rid \in SeqToSet(ids) |->
          IF rid \in DOMAIN m THEN m[rid] ELSE rid = cur]

\* what st.data_editor hands back: the shown flags with the user's toggles
editor_result(pm, toggled) ==
  [rid \in DOMAIN pm |-> IF rid \in toggled THEN ~pm[rid] ELSE pm[rid]]

only(ids, sel) == [rid \in SeqToSet(ids) |-> rid = sel]

\* reconcile where the first newly checked id wins
reconcile_first_new(ids, pm, em, cur) ==
  LET IsNew(rid) == em[rid] /\ ~pm[rid]
      IsOn(rid)  == em[rid]
      changed_to_true == SelectSeq(ids, IsNew)
      selected_ids    == SelectSeq(ids, IsOn)
  IN  IF changed_to_true # << >>
      THEN LET sel == changed_to_true[1]
           IN  [map |-> only(ids, sel), cur |-> sel, sync |-> TRUE,
                rerun |-> TRUE, branch |-> "new"]
      ELSE IF Len(selected_ids) = 0
      THEN [map |-> [rid \in SeqToSet(ids) |-> FALSE], cur |-> cur,
            sync |-> FALSE, rerun |-> FALSE, branch |-> "zero"]
      ELSE IF Len(selected_ids) = 1
      THEN [map |-> only(ids, selected_ids[1]), cur |-> selected_ids[1],
            sync |-> TRUE, rerun |-> FALSE, branch |-> "one"]
      ELSE LET sel == selected_ids[Len(selected_ids)]
           IN  [map |-> only(ids, sel), cur |-> sel, sync |-> TRUE,
                rerun |-> TRUE, branch |-> "many"]

\* reconcile where several stale checks are reduced without a rerun
reconcile_many_quiet(ids, pm, em, cur) ==
  LET IsNew(rid) == em[rid] /\ ~pm[rid]
      IsOn(rid)  == em[rid]
      changed_to_true == SelectSeq(ids, IsNew)
      selected_ids    == SelectSeq(ids, IsOn)
  IN  IF changed_to_true # << >>
      THEN LET sel == changed_to_true[Len(changed_to_true)]
           IN  [map |-> only(ids, sel), cur |-> sel, sync |-> TRUE,
                rerun |-> TRUE, branch |-> "new"]
      ELSE IF Len(selected_ids) = 0
      THEN [map |-> [rid \in SeqToSet(ids) |-> FALSE], cur |-> cur,
            sync |-> FALSE, rerun |-> FALSE, branch |-> "zero"]
      ELSE IF Len(selected_ids) = 1
      THEN [map |-> only(ids, selected_ids[1]), cur |-> selected_ids[1],
            sync |-> TRUE, rerun |-> FALSE, branch |-> "one"]
      ELSE LET sel == selected_ids[Len(selected_ids)]
           IN  [map |-> only(ids, sel), cur |-> sel, sync |-> TRUE,
                rerun |-> FALSE, branch |-> "many"]

\* reconcile where the single checked id is not written to the URL
reconcile_one_unsynced(ids, pm, em, cur) ==
  LET IsNew(rid) == em[rid] /\ ~pm[rid]
      IsOn(rid)  == em[rid]
      changed_to_true == SelectSeq(ids, IsNew)
      selected_ids    == SelectSeq(ids, IsOn)
  IN  IF changed_to_true # << >>
      THEN LET sel == changed_to_true[Len(changed_to_true)]
           IN  [map |-> only(ids, sel), cur |-> sel, sync |-> TRUE,
                rerun |-> TRUE, branch |-> "new"]
      ELSE IF Len(selected_ids) = 0
      THEN [map |-> [rid \in SeqToSet(ids) |-> FALSE], cur |-> cur,
            sync |-> FALSE, rerun |-> FALSE, branch |-> "zero"]
      ELSE IF Len(selected_ids) = 1
      THEN [map |-> only(ids, selected_ids[1]), cur |-> selected_ids[1],
            sync |-> FALSE, rerun |-> FALSE, branch |-> "one"]
      ELSE LET sel == selected_ids[Len(selected_ids)]
           IN  [map |-> only(ids, sel), cur |-> sel, sync |-> TRUE,
                rerun |-> TRUE, branch |-> "many"]

\* the reconciliation forcing a refresh also when one row is checked
reconcile_one_rerun(ids, pm, em, cur) ==
  LET IsNew(rid) == em[rid] /\ ~pm[rid]
      IsOn(rid)  == em[rid]
      changed_to_true == SelectSeq(ids, IsNew)
      selected_ids    == SelectSeq(ids, IsOn)
  IN  IF changed_to_true # << >>
      THEN LET sel == changed_to_true[Len(changed_to_true)]
           IN  [map |-> only(ids, sel), cur |-> sel, sync |-> TRUE,
                rerun |-> TRUE, branch |-> "new"]
      ELSE IF Len(selected_ids) = 0
      THEN [map |-> [rid \in SeqToSet(ids) |-> FALSE], cur |-> cur,
            sync |-> FALSE, rerun |-> FALSE, branch |-> "zero"]
      ELSE IF Len(selected_ids) = 1
      THEN [map |-> only(ids, selected_ids[1]), cur |-> selected_ids[1],
            sync |-> TRUE, rerun |-> TRUE, branch |-> "one"]
      ELSE LET sel == selected_ids[Len(selected_ids)]
           IN  [map |-> only(ids, sel), cur |-> sel, sync |-> TRUE,
                rerun |-> TRUE, branch |-> "many"]

\* the reconciliation keeping every checked row when several are checked
reconcile_many_keep(ids, pm, em, cur) ==
  LET IsNew(rid) == em[rid] /\ ~pm[rid]
      IsOn(rid)  == em[rid]
      changed_to_true == SelectSeq(ids, IsNew)
      selected_ids    == SelectSeq(ids, IsOn)
  IN  IF changed_to_true # << >>
      THEN LET sel == changed_to_true[Len(changed_to_true)]
           IN  [map |-> only(ids, sel), cur |-> sel, sync |-> TRUE,
                rerun |-> TRUE, branch |-> "new"]
      ELSE IF Len(selected_ids) = 0
      THEN [map |-> [rid \in SeqToSet(ids) |-> FALSE], cur |-> cur,
            sync |-> FALSE, rerun |-> FALSE, branch |-> "zero"]
      ELSE IF Len(selected_ids) = 1
      THEN [map |-> only(ids, selected_ids[1]), cur |-> selected_ids[1],
            sync |-> TRUE, rerun |-> FALSE, branch |-> "one"]
      ELSE LET sel == selected_ids[Len(selected_ids)]
           IN  [map |-> em, cur |-> sel, sync |-> TRUE,
                rerun |-> TRUE, branch |-> "many"]

reconcile(ids, pm, em, cur) ==
  LET IsNew(rid) == em[rid] /\ ~pm[rid]
      IsOn(rid)  == em[rid]
      changed_to_true == SelectSeq(ids, IsNew)
      selected_ids    == SelectSeq(ids, IsOn)
  IN  IF changed_to_true # << >>
      THEN LET sel == changed_to_true[Len(changed_to_true)]
           IN  [map |-> only(ids, sel), cur |-> sel, sync |-> TRUE,
                rerun |-> TRUE, branch |-> "new"]
      ELSE IF Len(selected_ids) = 0
      THEN [map |-> [rid \in SeqToSet(ids) |-> FALSE], cur |-> cur,
            sync |-> FALSE, rerun |-> FALSE, branch |-> "zero"]
      ELSE IF Len(selected_ids) = 1
      THEN [map |-> only(ids, selected_ids[1]), cur |-> selected_ids[1],
            sync |-> TRUE, rerun |-> FALSE, branch |-> "one"]
      ELSE LET sel == selected_ids[Len(selected_ids)]
           IN  [map |-> only(ids, sel), cur |-> sel, sync |-> TRUE,
                rerun |-> TRUE, branch |-> "many"]

\* ------------------------------------------------------------- the passes
Done   == pc' = "idle" /\ ev' = Ev("none")
Rerun  == pc' = "run"  /\ ev' = Ev("rerun")

\* what every pass leaves behind after line 164
HeadEffects(in) ==
  /\ nav' = H_nav(in)
  /\ qp_consumed' = H_consumed
  /\ nav_history' = H_hist(in)
  /\ selected_stage' = in.selected_stage

PassOpportunities(in) ==
  /\ H_nav(in) = "Opportunities"
  /\ HeadEffects(in)
  /\ nav_target' = NoPage
  /\ data' = H_data
  /\ file' = file
  /\ LET filtered == filter_opportunities_by_stage(H_data, in.selected_stage)
         ids == IdsOf(filtered)
         pm  == refresh_map("_selected_map" \in present, selected_map, ids,
                            H_cur(in))
         em  == editor_result(pm, in.toggled)
         r   == reconcile(ids, pm, em, H_cur(in))
     IN  IF filtered = << >>
         THEN /\ selected_map' = selected_map
              /\ current_id' = H_cur(in)
              /\ present' = H_present(in)
              /\ qp' = H_qp(in)
              /\ uploaded' = 0
              /\ obs' = [PassObs(in) EXCEPT !.branch = "empty"]
              /\ Done
         ELSE /\ selected_map' = r.map
              /\ current_id' = r.cur
              /\ present' = (H_present(in) \cup {"_selected_map"})
                               \cup (IF r.sync THEN {"current_id"} ELSE {})
              /\ qp' = IF r.sync THEN sync_qp("Opportunities", r.cur)
                       ELSE H_qp(in)
              /\ uploaded' = IF r.rerun THEN in.uploaded ELSE 0
              /\ obs' = [PassObs(in) EXCEPT !.listed = ids, !.prev_map = pm,
                                            !.keys0 = DOMAIN selected_map,
                                            !.edited_map = em,
                                            !.branch = r.branch,
                                            !.rerun = r.rerun]
              /\ IF r.rerun THEN Rerun ELSE Done

PassNewOpportunity(in) ==
  /\ H_nav(in) = "New Opportunity"
  /\ HeadEffects(in)
  /\ selected_map' = selected_map
  /\ IF in.kind = "create"
     THEN LET opp == Opp(next_id(H_data), in.stage, "Tender Desk")
          IN  /\ data' = Append(H_data, opp)
              /\ file' = save_data(data')
              /\ current_id' = opp.id
              /\ present' = H_present(in) \cup {"current_id", "nav_target"}
              /\ nav_target' = "Opportunity Detail"
              /\ qp' = sync_qp("Opportunity Detail", opp.id)
              /\ uploaded' = in.uploaded
              /\ obs' = [PassObs(in) EXCEPT !.branch = "create",
                                            !.rerun = TRUE]
              /\ Rerun
     ELSE /\ data' = H_data
          /\ file' = file
          /\ current_id' = H_cur(in)
          /\ present' = H_present(in)
          /\ nav_target' = NoPage
          /\ qp' = H_qp(in)
          /\ uploaded' = 0
          /\ obs' = [PassObs(in) EXCEPT !.branch = "form"]
          /\ Done

\* opp = get_by_id(data, current_id) if current_id else None
current_opp(d, cur) == IF cur # NoId THEN get_by_id(d, cur) ELSE 0

add_product(d, i) ==
  [d EXCEPT ![i].products = Append(@, "Pump")]

add_attachments(d, i, n) ==
  [d EXCEPT ![i].attachments = @ \o [k \in 1..n |-> "bid.pdf"]]

\* the submission without the operator label
submit_tender_stage_only(d, i) ==
  [d EXCEPT ![i].stage = "Submitted"]

submit_tender(d, i) ==
  [d EXCEPT ![i].stage = "Submitted", ![i].last_modified_by = "Tender Desk"]

PassOpportunityDetail(in) ==
  /\ H_nav(in) = "Opportunity Detail"
  /\ HeadEffects(in)
  /\ nav_target' = NoPage
  /\ selected_map' = selected_map
  /\ current_id' = H_cur(in)
  /\ present' = H_present(in)
  /\ qp' = H_qp(in)
  /\ LET i == current_opp(H_data, H_cur(in))
     IN  IF i = 0
         THEN /\ data' = H_data
              /\ file' = file
              /\ uploaded' = 0
              /\ obs' = [PassObs(in) EXCEPT !.branch = "no_record"]
              /\ Done
         ELSE IF in.kind = "add_product"
         THEN /\ data' = add_product(H_data, i)
              /\ file' = save_data(data')
              /\ uploaded' = in.uploaded
              /\ obs' = [PassObs(in) EXCEPT !.branch = "add_product",
                                            !.rerun = TRUE]
              /\ Rerun
         ELSE IF in.uploaded > 0
         THEN /\ data' = add_attachments(H_data, i, in.uploaded)
              /\ file' = save_data(data')
              /\ uploaded' = in.uploaded
              /\ obs' = [PassObs(in) EXCEPT !.branch = "upload"]
              /\ Done
         ELSE /\ data' = H_data
              /\ file' = file
              /\ uploaded' = in.uploaded
              /\ obs' = [PassObs(in) EXCEPT !.branch = "detail"]
              /\ Done

PassSubmitTender(in) ==
  /\ H_nav(in) = "Submit Tender"
  /\ HeadEffects(in)
  /\ selected_map' = selected_map
  /\ current_id' = H_cur(in)
  /\ LET i == current_opp(H_data, H_cur(in))
     IN  IF i # 0 /\ in.kind = "cancel"
         THEN /\ data' = H_data
              /\ file' = file
              /\ nav_target' = "Opportunities"
              /\ present' = H_present(in) \cup {"nav_target"}
              /\ qp' = sync_qp("Opportunities", H_cur(in))
              /\ uploaded' = in.uploaded
              /\ obs' = [PassObs(in) EXCEPT !.branch = "cancel",
                                            !.rerun = TRUE]
              /\ Rerun
         ELSE IF i # 0 /\ in.kind = "submit"
         THEN /\ data' = submit_tender(H_data, i)
              /\ file' = save_data(data')
              /\ nav_target' = NoPage
              /\ present' = H_present(in)
              /\ qp' = sync_qp("Submit Tender", H_cur(in))
              /\ uploaded' = 0
              /\ obs' = [PassObs(in) EXCEPT !.branch = "submit",
                                            !.stage0 = H_data[i].stage]
              /\ Done
         ELSE /\ data' = H_data
              /\ file' = file
              /\ nav_target' = NoPage
              /\ present' = H_present(in)
              /\ qp' = H_qp(in)
              /\ uploaded' = 0
              /\ obs' = [PassObs(in) EXCEPT !.branch =
                           IF i = 0 THEN "no_record" ELSE "submit_page"]
              /\ Done

\* one execution of the script, top to bottom or up to st.rerun()
Pass(in) ==
  /\ peer' = peer
  /\ \/ PassOpportunities(in)
     \/ PassNewOpportunity(in)
     \/ PassOpportunityDetail(in)
     \/ PassSubmitTender(in)

\* ------------------------------------------------------- user interactions
\* An interaction is accepted when the last pass has completed.  A widget
\* interaction changes widget state and the script runs at once; an
\* on_click callback runs first and leaves the pass due.
Session == <<file, data, current_id, qp_consumed, selected_map>>

ListedIds == IdsOf(filter_opportunities_by_stage(data, selected_stage))

CurOpp == current_opp(data, current_id)

RECURSIVE SumLen(_, _)
SumLen(d, field) ==
  IF d = << >> THEN 0
  ELSE Len(d[1][field]) + SumLen(Tail(d), field)

\* the stage filters the user picks among
StageChoices == {"All", "Proposal"}

\* the uploader keeps its files: every further pass over the detail page
\* appends them again
ReplayRoom ==
  \/ uploaded = 0
  \/ CurOpp # 0 /\ SumLen(data, "attachments") + uploaded <= MaxAttach

\* the pass that a callback or st.rerun() left due
RunDue ==
  /\ pc = "run"
  /\ Pass([Same EXCEPT !.kind = ev.kind, !.hist0 = ev.hist0])

\* sidebar radio: the widget writes the pick into session_state['nav']
PickPage(p) ==
  /\ pc = "idle"
  /\ p # nav
  /\ Len(nav_history) < MaxHist
  /\ Pass([Same EXCEPT !.nav = p])

\* sidebar selectbox 'Stage'
SetStage(s) ==
  /\ pc = "idle"
  /\ s # selected_stage
  /\ ReplayRoom
  /\ Pass([Same EXCEPT !.selected_stage = s])

\* a widget without effect on the session ('Clone Selected', a text field)
OtherInput ==
  /\ pc = "idle"
  /\ ReplayRoom
  /\ Pass(Same)

\* the browser presents the session with other query parameters
EditLink(l) ==
  /\ pc = "idle"
  /\ ReplayRoom
  /\ Pass([Same EXCEPT !.qp = l])

\* the user flips check boxes of the listed rows
EditTable(tg) ==
  /\ pc = "idle"
  /\ nav = "Opportunities"
  /\ tg # {}
  /\ tg \subseteq SeqToSet(ListedIds)
  /\ Pass([Same EXCEPT !.toggled = tg])

\* the stage picked in the form
FormStages == {"Submitted"}

\* the 'Create' button of the New Opportunity form
ClickCreate(stage) ==
  /\ pc = "idle"
  /\ nav = "New Opportunity"
  /\ Len(data) < MaxRecs
  /\ Len(nav_history) < MaxHist
  /\ Pass([Same EXCEPT !.kind = "create", !.stage = stage])

ClickAddProduct ==
  /\ pc = "idle"
  /\ nav = "Opportunity Detail"
  /\ CurOpp # 0
  /\ SumLen(data, "products") < MaxProducts
  /\ ReplayRoom
  /\ Pass([Same EXCEPT !.kind = "add_product"])

\* the user adds a file to the uploader
UploadFile ==
  /\ pc = "idle"
  /\ nav = "Opportunity Detail"
  /\ CurOpp # 0
  /\ SumLen(data, "attachments") + uploaded + 1 <= MaxAttach
  /\ Pass([Same EXCEPT !.uploaded = uploaded + 1])

\* the user empties the uploader
RemoveUpload ==
  /\ pc = "idle"
  /\ uploaded > 0
  /\ Pass([Same EXCEPT !.uploaded = 0])

ClickSubmit ==
  /\ pc = "idle"
  /\ nav = "Submit Tender"
  /\ CurOpp # 0
  /\ Pass([Same EXCEPT !.kind = "submit"])

ClickCancel ==
  /\ pc = "idle"
  /\ nav = "Submit Tender"
  /\ CurOpp # 0
  /\ Len(nav_history) < MaxHist
  /\ Pass([Same EXCEPT !.kind = "cancel"])

\* Back: the on_click callback _go_back, or nothing when disabled
BackActivate ==
  /\ pc = "idle"
  /\ LET r == go_back(nav_history, nav_target, qp, current_id)
     IN  /\ nav_history' = r.hist
         /\ nav_target' = r.target
         /\ present' = IF r.set_target THEN present \cup {"nav_target"}
                       ELSE present
         /\ qp' = r.qp
  /\ obs' = [ObsBase EXCEPT !.kind = "back", !.hist0 = nav_history,
                            !.target0 = nav_target, !.qp0 = qp,
                            !.nav0 = nav, !.cur0 = current_id,
                            !.disabled = back_disabled(nav_history)]
  /\ IF back_disabled(nav_history)
     THEN pc' = pc /\ ev' = ev
     ELSE pc' = "run" /\ ev' = [Ev("back") EXCEPT !.hist0 = nav_history]
  /\ UNCHANGED <<Session, nav, selected_stage, uploaded, peer>>

\* 'Open Detail': the on_click callback _go_detail
GoDetail ==
  /\ pc = "idle"
  /\ nav = "Opportunities"
  /\ ListedIds # << >>
  /\ current_id # NoId
  /\ Len(nav_history) < MaxHist
  /\ nav_target' = "Opportunity Detail"
  /\ present' = present \cup {"nav_target"}
  /\ qp' = sync_qp("Opportunity Detail", current_id)
  /\ pc' = "run"
  /\ ev' = Ev("callback")
  /\ obs' = [ObsBase EXCEPT !.kind = "go_detail"]
  /\ UNCHANGED <<Session, nav, nav_history, selected_stage, uploaded, peer>>

\* 'Go to Submit Tender': the on_click callback _go_submit
GoSubmit ==
  /\ pc = "idle"
  /\ nav = "Opportunity Detail"
  /\ CurOpp # 0
  /\ Len(nav_history) < MaxHist
  /\ nav_target' = "Submit Tender"
  /\ present' = present \cup {"nav_target"}
  /\ qp' = sync_qp("Submit Tender", current_id)
  /\ pc' = "run"
  /\ ev' = Ev("callback")
  /\ obs' = [ObsBase EXCEPT !.kind = "go_submit"]
  /\ UNCHANGED <<Session, nav, nav_history, selected_stage, uploaded, peer>>

Next ==
  \/ RunDue
  \/ \E p \in valid_pages : PickPage(p)
  \/ \E s \in StageChoices : SetStage(s)
  \/ OtherInput
  \/ \E l \in EditLinks : EditLink(l)
  \/ \E tg \in SUBSET SeqToSet(ListedIds) : EditTable(tg)
  \/ \E stage \in FormStages : ClickCreate(stage)
  \/ ClickAddProduct
  \/ UploadFile
  \/ RemoveUpload
  \/ ClickSubmit
  \/ ClickCancel
  \/ BackActivate
  \/ GoDetail
  \/ GoSubmit

Spec == Init /\ [][Next]_vars

\* Streamlit runs a due pass at once: after a callback and after st.rerun()
\* the script is executed again without waiting for the user.
SpecLive == Spec /\ WF_vars(RunDue)

\* ----------------------------------------- the store functions on their own
\* Specifications that hand one bounded input to one function of the record
\* store and keep the result in obs.
ScanIds == {OPP1, OPP2, BADID, BARE7, X12, NOSUF}

RECURSIVE SeqsUpTo(_, _)
SeqsUpTo(S, n) ==
  IF n = 0 THEN {<< >>}
  ELSE LET shorter == SeqsUpTo(S, n - 1)
       IN  shorter \cup {Append(q, x) : q \in shorter, x \in S}

\* OPP-0001..OPP-0007 and one id with a non-numeric suffix
SevenAndOne ==
  << Opp(OPP1, "Proposal", "Ann"), Opp(OPP2, "Proposal", "Ann"),
     Opp(BADID, "Proposal", "Ann"), Opp(OPP3, "Proposal", "Ann"),
     Opp(FormatId(4), "Proposal", "Ann"), Opp(FormatId(5), "Proposal", "Ann"),
     Opp(FormatId(6), "Proposal", "Ann"), Opp(FormatId(7), "Proposal", "Ann") >>

ScanDocs ==
  {[i \in 1..Len(q) |-> Opp(q[i], "Proposal", "Ann")] :
     q \in SeqsUpTo(ScanIds, MaxScan)} \cup {SevenAndOne}

\* everything but the function's input is at rest
FnRest ==
  /\ present = {}
  /\ current_id = NoId
  /\ nav = NoPage
  /\ qp_consumed = FALSE
  /\ nav_target = NoPage
  /\ nav_history = << >>
  /\ selected_map = NoMap
  /\ uploaded = 0
  /\ qp = NoLink
  /\ peer = NoPeer
  /\ pc = "call"
  /\ ev = Ev("none")
  /\ obs = ObsBase

FnFrame ==
  UNCHANGED <<file, qp, present, data, current_id, nav, qp_consumed,
              nav_target, nav_history, selected_map, selected_stage, uploaded,
              ev, peer>>

InitNextId ==
  /\ FnRest
  /\ file = AbsentFile
  /\ selected_stage = "All"
  /\ data \in ScanDocs

CallNextId ==
  /\ pc = "call"
  /\ pc' = "done"
  /\ obs' = [kind |-> "next_id", result |-> next_id(data)]
  /\ FnFrame

SpecNextId == InitNextId /\ [][CallNextId]_vars

\* storage contents handed to load_data
LoadFiles ==
  {AbsentFile, CorruptFile, NonObjectFile, NoKeyFile, NotListFile}
    \cup {DocFile(d) : d \in ScanDocs}

InitLoad ==
  /\ FnRest
  /\ file \in LoadFiles
  /\ selected_stage = "All"
  /\ data = EmptyDoc

CallLoad ==
  /\ pc = "call"
  /\ pc' = "done"
  /\ obs' = [kind |-> "load", result |-> load_data(file)]
  /\ FnFrame

SpecLoad == InitLoad /\ [][CallLoad]_vars

\* ------------------------------------ two sessions on one file (C16)
\* Each browser session has its own st.session_state and URL; the file is
\* shared.  The variables hold the session whose script runs next, peer
\* holds the other one.
Switch ==
  LET p == IF peer.started THEN peer ELSE FreshSession
  IN  /\ peer' = [started |-> TRUE, present |-> present, data |-> data,
                  current_id |-> current_id, nav |-> nav,
                  qp_consumed |-> qp_consumed, nav_target |-> nav_target,
                  nav_history |-> nav_history, selected_map |-> selected_map,
                  selected_stage |-> selected_stage, uploaded |-> uploaded,
                  qp |-> qp, pc |-> pc, ev |-> ev]
      /\ present' = p.present
      /\ data' = p.data
      /\ current_id' = p.current_id
      /\ nav' = p.nav
      /\ qp_consumed' = p.qp_consumed
      /\ nav_target' = p.nav_target
      /\ nav_history' = p.nav_history
      /\ selected_map' = p.selected_map
      /\ selected_stage' = p.selected_stage
      /\ uploaded' = p.uploaded
      /\ qp' = p.qp
      /\ pc' = p.pc
      /\ ev' = p.ev
      /\ file' = file
      /\ obs' = [ObsBase EXCEPT !.kind = "switch"]

TwoPages == {"Opportunities", "New Opportunity"}

TwoStages == {"Proposal", "Submitted"}

InitTwo == Init /\ file = AbsentFile /\ qp = NoLink

NextTwo ==
  \/ RunDue
  \/ \E p \in TwoPages : PickPage(p)
  \/ \E stage \in TwoStages : ClickCreate(stage)
  \/ Switch

SpecTwo == InitTwo /\ [][NextTwo]_vars

\* documents and stage arguments handed to the filter
RecordStages == {"Proposal", "PROPOSAL", " proposal ", "Submitted", "All"}

StageArgs == {"All", "all", " All ", "", "Proposal", "PROPOSAL", " proposal ",
              "Submitted"}

FilterDocs ==
  {[i \in 1..Len(q) |-> Opp(FormatId(i), q[i], "Ann")] :
     q \in SeqsUpTo(RecordStages, MaxScan)}

InitFilter ==
  /\ FnRest
  /\ file = AbsentFile
  /\ selected_stage \in StageArgs
  /\ data \in FilterDocs

CallFilter ==
  /\ pc = "call"
  /\ pc' = "done"
  /\ obs' = [kind |-> "filter",
             result |-> filter_opportunities_by_stage(data, selected_stage)]
  /\ FnFrame

SpecFilter == InitFilter /\ [][CallFilter]_vars

\* ================================================================ claims

IsPass == obs.kind = "pass"

Front(q) == SubSeq(q, 1, Len(q) - 1)

Last(q) == q[Len(q)]

\* the listed ids that the submitted map checks, and those newly checked
OnIds == {rid \in SeqToSet(obs.listed) : obs.edited_map[rid]}

NewOnIds == {rid \in OnIds : ~obs.prev_map[rid]}

\* the member of a non-empty set of listed ids that comes last in the list
LastListed(S) ==
  LET at == CHOOSE i \in 1..Len(obs.listed) :
              /\ obs.listed[i] \in S
              /\ \A j \in 1..Len(obs.listed) : obs.listed[j] \in S => j <= i
  IN  obs.listed[at]

OnlyChecked(w) ==
  /\ DOMAIN selected_map = SeqToSet(obs.listed)
  /\ \A rid \in DOMAIN selected_map : selected_map[rid] <=> rid = w

\* C1: an enabled Back activation on a history whose top is the current page
\* removes exactly the top entry, leaves the new top T as pending intent and
\* as link page; the pass it triggers consumes the intent and leaves current
\* page T and the old history minus its last entry.
C1_BackReturnsToPrevious ==
  /\ (obs.kind = "back" /\ Len(obs.hist0) >= 2 /\ Last(obs.hist0) = obs.nav0)
       => /\ nav_history = Front(obs.hist0)
          /\ "nav_target" \in present
          /\ nav_target = Last(Front(obs.hist0))
          /\ qp.page = Last(Front(obs.hist0))
          /\ pc = "run"
  /\ (IsPass /\ Len(obs.hist0) >= 2)
       => /\ nav = Last(Front(obs.hist0))
          /\ nav_history = Front(obs.hist0)
          /\ obs.target0 = nav

C1_Witness ==
  /\ IsPass
  /\ obs.hist0 = <<"Opportunities", "New Opportunity", "Opportunity Detail">>
  /\ nav = "New Opportunity"
  /\ nav_history = <<"Opportunities", "New Opportunity">>

\* C2: the first pass of a session whose link names a valid page and an
\* existing record applies both and sets the consumed flag; a later pass
\* that starts without pending intent does not hydrate: page and record id
\* are what they were before the hydration block.
C2_HydrationOneShot ==
  /\ (IsPass /\ obs.fresh /\ obs.qp0.page \in valid_pages /\ obs.idok)
       => obs.page = obs.qp0.page /\ obs.cur1 = obs.qp0.id /\ qp_consumed
  /\ (IsPass /\ ~obs.fresh /\ obs.target0 = NoPage)
       => ~obs.hydrated /\ obs.page = obs.nav0 /\ obs.cur1 = obs.cur0

C2_Witness ==
  /\ IsPass /\ ~obs.fresh /\ obs.target0 = NoPage
  /\ obs.elsewhere
  /\ qp_consumed

\* C3: the history never holds the same page name in two adjacent places.
C3_NoAdjacentDuplicates ==
  \A i \in 1..(Len(nav_history) - 1) : nav_history[i] # nav_history[i + 1]

C3_Witness ==
  /\ IsPass /\ pc = "idle"
  /\ obs.page = obs.nav0 /\ ~obs.fresh /\ obs.target0 = NoPage
  /\ nav_history = <<"Opportunities", "New Opportunity", "Opportunities">>

\* C4: when the submitted map checks no id, no record is current after the
\* pass and every listed id is unchecked.
C4_ZeroCheckedClears ==
  (IsPass /\ obs.listed # << >> /\ OnIds = {})
    => /\ current_id = NoId
       /\ \A rid \in SeqToSet(obs.listed) : ~selected_map[rid]

\* C5: when some id went from unchecked to checked, the last such id in
\* list order is the only checked id and the current record, and a rerun
\* is signalled.
C5_LastNewlyCheckedWins ==
  (IsPass /\ obs.listed # << >> /\ NewOnIds # {})
    => /\ OnlyChecked(LastListed(NewOnIds))
       /\ current_id = LastListed(NewOnIds)
       /\ obs.rerun /\ pc = "run"

C5_Witness ==
  /\ IsPass /\ Cardinality(NewOnIds) >= 2
  /\ current_id = Last(obs.listed)
  /\ pc = "run"

\* C6: with no newly checked id and at least one checked id, the last
\* checked id in list order is the only checked id and the current record;
\* a rerun is signalled exactly when more than one id was checked.
C6_LastCheckedKept ==
  (IsPass /\ obs.listed # << >> /\ NewOnIds = {} /\ OnIds # {})
    => /\ OnlyChecked(LastListed(OnIds))
       /\ current_id = LastListed(OnIds)
       /\ obs.rerun <=> Cardinality(OnIds) > 1
       /\ pc = "run" <=> Cardinality(OnIds) > 1

C6_Witness ==
  /\ IsPass /\ obs.listed # << >> /\ NewOnIds = {}
  /\ Cardinality(OnIds) >= 2
  /\ pc = "run"

\* C7: when a pass has run to completion the link page is the current page
\* and the link id is the text of the current record id.
C7_LinkInSync ==
  pc = "idle" => qp.page = nav /\ qp.id = QpStr(current_id)

C7_Witness ==
  /\ pc = "idle" /\ IsPass
  /\ obs.branch = "one"
  /\ obs.cur1 # current_id

\* C8: a hydration applies the link id exactly when it names an existing
\* record and the link page exactly when it is a valid page, each whatever
\* the other is, and always sets the consumed flag.
C8_InvalidLinkIgnored ==
  (IsPass /\ obs.hydrated)
    => /\ obs.cur1 = IF obs.qp0.id # NoId /\ obs.idok THEN obs.qp0.id
                     ELSE obs.cur0
       /\ obs.page = IF obs.qp0.page \in valid_pages THEN obs.qp0.page
                     ELSE obs.nav0
       /\ qp_consumed

C8_Witness ==
  /\ IsPass /\ obs.hydrated
  /\ obs.qp0.page \notin valid_pages /\ obs.qp0.page # NoPage
  /\ obs.idok /\ obs.cur1 = obs.qp0.id /\ obs.cur1 # obs.cur0
  /\ obs.page = obs.nav0

\* C9: with an empty or one-entry history the Back control is disabled and
\* an activation leaves history, pending intent, page and link unchanged.
C9_BackNoOpOnShortHistory ==
  (obs.kind = "back" /\ Len(obs.hist0) <= 1)
    => /\ obs.disabled
       /\ nav_history = obs.hist0
       /\ nav_target = obs.target0 /\ "nav_target" \notin present
       /\ nav = obs.nav0
       /\ qp = obs.qp0

C9_Witness ==
  /\ obs.kind = "back" /\ Len(obs.hist0) = 1 /\ obs.disabled
  /\ pc = "idle"

\* C10: the record ids stay pairwise distinct, and no step changes or
\* removes the id at any position of the loaded document.
DistinctIds(d) ==
  \A i, j \in 1..Len(d) : i # j => d[i].id # d[j].id

IdsKept ==
  "data" \in present
    => /\ Len(data') >= Len(data)
       /\ \A i \in 1..Len(data) : data'[i].id = data[i].id

C10_IdsUniqueAndImmutable == [](DistinctIds(data)) /\ [][IdsKept]_vars

C10_Witness ==
  /\ IsPass /\ obs.branch = "create"
  /\ Len(data) = 2
  /\ data[1].id = BADID
  /\ DistinctIds(data)

\* C11: next_id returns OPP- followed by the decimal text, at least four
\* digits wide, of 1 when no id has a numeric suffix and otherwise of the
\* largest numeric suffix plus 1; ids with other suffixes are skipped.
ParsedSuffixes == {IntOf(SplitLast(data[i].id)) : i \in 1..Len(data)} \ {-1}

C11_NextIdIsMaxPlusOne ==
  obs.kind = "next_id"
    => LET r == obs.result
           n == IntOf(SubSeq(r, 5, Len(r)))
       IN  /\ SubSeq(r, 1, 4) = <<"O","P","P","-">>
           /\ Len(r) >= 8
           /\ n < 10000 => Len(r) = 8
           /\ n >= 1
           /\ ParsedSuffixes = {} => n = 1
           /\ ParsedSuffixes # {}
                => (n - 1) \in ParsedSuffixes
                   /\ \A k \in ParsedSuffixes : k < n
           /\ data = SevenAndOne => r = OPP8

C11_Witness ==
  /\ obs.kind = "next_id"
  /\ data = SevenAndOne
  /\ obs.result = OPP8

\* C12: load_data returns, for every storage content, a document whose
\* 'opportunities' is a list, and the empty document unless the content is
\* a well-formed document.
WellFormed(f) == f.kind = "doc" /\ f.islist

C12_LoadAlwaysList ==
  obs.kind = "load"
    => /\ obs.result.islist
       /\ ~WellFormed(file) => obs.result = Document(EmptyDoc)
       /\ WellFormed(file) => obs.result = Document(file.opps)

\* C13: the filter returns, in document order, the records whose stage
\* equals the argument up to surrounding blanks and letter case, and all
\* records when the argument (without surrounding blanks) is empty or is
\* "all" in any letter case.
FoldClasses ==
  { {"All", "all", " All "},
    {"Proposal", "PROPOSAL", "proposal", " proposal "},
    {"Submitted", "submitted"},
    {""} }

SameFolded(a, b) == \E c \in FoldClasses : a \in c /\ b \in c

C13_FilterByFoldedStage ==
  obs.kind = "filter"
    => LET Match(o) == SameFolded(o.stage, selected_stage)
       IN  obs.result =
             IF SameFolded(selected_stage, "all") \/ selected_stage = ""
             THEN data ELSE SelectSeq(data, Match)

C13_Witness ==
  /\ obs.kind = "filter"
  /\ selected_stage = "PROPOSAL"
  /\ Len(data) = 3
  /\ data[1].stage = " proposal " /\ data[2].stage = "Submitted"
  /\ data[3].stage = "Proposal"
  /\ obs.result = << data[1], data[3] >>

\* C14: a submission, whatever the stage of the current record, sets its
\* stage to Submitted and last_modified_by to "Tender Desk" and persists the
\* document; on a record already submitted by the Tender Desk the document
\* stays as it is; the other records, the other fields of the record, the
\* current page and the history are unchanged.
SubmitStep == pc = "idle" /\ obs'.kind = "pass" /\ obs'.branch = "submit"

SubmitEffect ==
  LET i == get_by_id(data, current_id)
  IN  /\ i # 0
      /\ Len(data') = Len(data)
      /\ data'[i].stage = "Submitted"
      /\ data'[i].last_modified_by = "Tender Desk"
      /\ data'[i].id = data[i].id
      /\ data'[i].products = data[i].products
      /\ data'[i].attachments = data[i].attachments
      /\ \A j \in 1..Len(data) : j # i => data'[j] = data[j]
      /\ file' = DocFile(data')
      /\ (data[i].stage = "Submitted"
            /\ data[i].last_modified_by = "Tender Desk") => data' = data
      /\ nav' = nav /\ nav_history' = nav_history
      /\ current_id' = current_id

C14_SubmitIdempotentUnguarded == [][SubmitStep => SubmitEffect]_vars

C14_Witness ==
  /\ obs.kind = "pass" /\ obs.branch = "submit"
  /\ obs.stage0 = "Proposal"
  /\ Len(data) = 2
  /\ data[1].id = current_id
  /\ data[1].stage = "Submitted" /\ data[1].last_modified_by = "Tender Desk"
  /\ file = DocFile(data)

\* C15: in one session the stored document follows the document in memory:
\* a pass that created a record, added a product, added attachments or
\* submitted has rewritten the file with the document in memory before it
\* ends or restarts, and whenever the session holds a document, loading the
\* file yields that document.
MutatingBranches == {"create", "add_product", "upload", "submit"}

C15_WriteThrough ==
  /\ "data" \in present => load_data(file) = Document(data)
  /\ (obs.kind = "pass" /\ obs.branch \in MutatingBranches)
       => file = DocFile(data)

C15_Witness ==
  /\ obs.kind = "pass" /\ obs.branch = "add_product"
  /\ pc = "run"
  /\ \E i \in 1..Len(data) : data[i].id = current_id
                                /\ data[i].products # << >>
  /\ file = DocFile(data)

\* C16: with two sessions on one file, right after a pass of one session
\* has saved, the file holds exactly that session's document, whatever the
\* other session wrote before: the records only the other session holds
\* are not in the file.
PeerOnly(o) ==
  /\ peer.started
  /\ \E i \in 1..Len(peer.data) : peer.data[i] = o
  /\ \A i \in 1..Len(data) : data[i] # o

C16_LastWriteWins ==
  (obs.kind = "pass" /\ obs.branch \in MutatingBranches)
    => /\ file = DocFile(data)
       /\ \A i \in 1..Len(file.opps) : ~PeerOnly(file.opps[i])

C16_Witness ==
  /\ obs.kind = "pass" /\ obs.branch = "create"
  /\ peer.started
  /\ Len(data) = 1 /\ Len(peer.data) = 1
  /\ data[1].id = OPP1 /\ peer.data[1].id = OPP1
  /\ data[1].stage = "Submitted" /\ peer.data[1].stage = "Proposal"
  /\ file = DocFile(data)
  /\ PeerOnly(peer.data[1])

\* C17: the pending intent is a single page or absent; a pass that starts
\* with the intent P has removed it, has run hydration again (the consumed
\* flag was reset) and ends on page P, since hydration found P in the link.
C17_IntentOneShot ==
  /\ IF "nav_target" \in present THEN nav_target \in valid_pages
                                   ELSE nav_target = NoPage
  /\ (IsPass /\ obs.target0 # NoPage)
       => /\ obs.hydrated
          /\ qp_consumed
          /\ obs.qp0.page = obs.target0
          /\ obs.nav0 = obs.target0
          /\ obs.page = obs.target0
          /\ nav = obs.target0
          /\ "nav_target" \notin present

C17_Witness ==
  /\ IsPass
  /\ obs.target0 = "Opportunities"
  /\ obs.hist0 = << "Opportunities", "New Opportunity" >>
  /\ nav = "Opportunities"
  /\ nav_history = << "Opportunities" >>
  /\ "nav_target" \notin present

\* C18: after a pass over the Opportunities page that lists at least one
\* record, the keys of the selection map are exactly the listed ids (keys
\* of an earlier view are gone, new ids are there), at most one id is
\* checked, and a checked id is the current record id.
C18_SingleSelect ==
  (IsPass /\ obs.page = "Opportunities" /\ obs.listed # << >>)
    => /\ SeqToSet(obs.listed) = SeqToSet(ListedIds)
       /\ DOMAIN selected_map = SeqToSet(obs.listed)
       /\ \A a, b \in DOMAIN selected_map :
             selected_map[a] /\ selected_map[b] => a = b
       /\ \A a \in DOMAIN selected_map : selected_map[a] => a = current_id

C18_Witness ==
  /\ IsPass /\ obs.page = "Opportunities"
  /\ obs.keys0 = {OPP1, OPP2}
  /\ obs.listed = << OPP1 >>
  /\ DOMAIN selected_map = {OPP1}
  /\ selected_map[OPP1]
  /\ current_id = OPP1

\* C19: the current record id is unset or is the id of a record of the
\* document in memory.
C19_CurrentIdValid == current_id = NoId \/ HasId(data, current_id)

C19_Witness ==
  /\ IsPass /\ obs.hydrated
  /\ obs.qp0.id = GHOST /\ ~obs.idok
  /\ obs.cur0 = OPP1 /\ current_id = OPP1
  /\ \E i \in 1..Len(data) : data[i].id = OPP1
  /\ \A i \in 1..Len(data) : data[i].id # GHOST

\* C20: at the end of every pass the history is not empty and its last
\* entry is the current page.
C20_HistoryTracksPage ==
  IsPass => nav_history # << >> /\ Last(nav_history) = nav

C20_Witness ==
  /\ IsPass
  /\ obs.target0 = "Submit Tender"
  /\ nav = "Submit Tender"
  /\ nav_history = << "Opportunities", "Opportunity Detail", "Submit Tender" >>

\* C21: a chain of due passes ends: whenever a pass is due, eventually a
\* pass has completed without asking for another one and without leaving
\* a pending intent.
Settled == pc = "idle" /\ "nav_target" \notin present

C21_RerunTerminates == (pc = "run") ~> Settled

C21_Witness ==
  /\ IsPass /\ Settled
  /\ obs.chain = 2
  /\ obs.branch = "one"
  /\ ~obs.rerun

\* C22: a pass over the Opportunities page in which the submitted map
\* equals the map as prepared for the listed ids leaves the current record
\* id as it was when the list was prepared.
C22_ViewKeepsSelection ==
  (IsPass /\ obs.page = "Opportunities" /\ obs.edited_map = obs.prev_map)
    => current_id = obs.cur1

====
